---- MODULE Spec2Model ----
(***************************************************************************)
(* The candidacy-reserve scraper: main's scan loop (src/src/index.ts 15-81),*)
(* processBlock (84-189), parseAmountAndWhoFromEventData (191-227) and the  *)
(* store of src/src/db.ts (events.db: tables events, last_processed_block). *)
(*                                                                         *)
(* One process runs at a time; the store file outlives the process.  A run *)
(* is one execution of main.  The store is the committed content of the    *)
(* file (events, lpb) and the connection's uncommitted view of it          *)
(* (txEvents, txLpb), which COMMIT publishes and ROLLBACK, process.exit    *)
(* and a kill of the process discard.                                      *)
(*                                                                         *)
(* StartRun enters main at line 31.  Line 34 calls fetchNetReserves, whose *)
(* finally clause closes the handle, so line 38 runs on a closed handle.   *)
(* StartScan enters the Scan Driver at line 38 on the handle as openDb     *)
(* returns it: the scan loop and processBlock are modelled, and checked,   *)
(* as they behave when handed an open handle.                              *)
(*                                                                         *)
(* ParseSpec is a lone call of parseAmountAndWhoFromEventData on amount    *)
(* texts up to and beyond 2^53; AggSpec is main from line 73 on any        *)
(* content of table events.                                                *)
(***************************************************************************)
EXTENDS Integers, Sequences, FiniteSets, TLC

VARIABLES
    chain,      \* block number -> the finalized block the RPC node served for it
    events,     \* committed rows of table events
    lpb,        \* committed rows of table last_processed_block
    txEvents,   \* the connection's view of events (= events outside a transaction)
    txLpb,      \* the connection's view of last_processed_block
    inTx,       \* a transaction is open on the connection
    dbOpen,     \* the handle returned by openDb is open
    pc,         \* the line main / processBlock is at, or how the process ended
    startBlock, endBlock, curBlock,   \* main's locals
    i,          \* processBlock's extrinsic index
    runs,       \* processes started so far
    fails,      \* failed calls of processBlock while on the current block
    committed,  \* blocks processBlock returned true for in this run, in order
    outcome,    \* how the last processBlock call of this run ended
    err,        \* why main's promise rejected
    netReserves,\* main's netReserves (line 73)
    csv,        \* rows handed to writeToCSV
    eventData,  \* the argument of a call of parseAmountAndWhoFromEventData
    parsed      \* what that call returned, or that it threw

vars == <<chain, events, lpb, txEvents, txLpb, inTx, dbOpen, pc, startBlock,
          endBlock, curBlock, i, runs, fails, committed, outcome, err,
          netReserves, csv, eventData, parsed>>

(* the variables of a lone call of parseAmountAndWhoFromEventData *)
callVars == <<eventData, parsed>>

(* the variables of the store and of the process *)
scanVars == <<chain, events, lpb, txEvents, txLpb, inTx, dbOpen, pc,
              startBlock, endBlock, curBlock, i, runs, fails, committed,
              outcome, err, netReserves, csv>>

----------------------------------------------------------------------------
(* Bounds *)

MaxBlocks == 2
MaxRuns == 2
MaxFails == 2

(* getLastProcessedBlock's default when the table is empty (db.ts:59) *)
Seed == 746096

FirstBlock == Seed + 1

(* "the first block number with the electionsPhragmen event on Polkadot"   *)
(* (db.ts:58), the comment on the default of getLastProcessedBlock         *)
FirstBlockWithEvent == 746096
BlockNums == FirstBlock .. (Seed + MaxBlocks)
Heads == FirstBlock .. (Seed + MaxBlocks + 1)

----------------------------------------------------------------------------
(* Text helpers: a string is a sequence of one-character strings *)

Digits == <<"0", "1", "2", "3", "4", "5", "6", "7", "8", "9">>
IsDigit(c) == \E k \in 1..10 : Digits[k] = c
DigitVal(c) == (CHOOSE k \in 1..10 : Digits[k] = c) - 1

RECURSIVE IntToText(_)
IntToText(v) ==
    IF v < 10 THEN <<Digits[v + 1]>>
    ELSE IntToText(v \div 10) \o <<Digits[(v % 10) + 1]>>

(* i.toString() of line 110 / 148 *)
IToString(k) == IntToText(k)

(* amount.replace(/,/g, "") *)
RemoveCommas(s) == SelectSeq(s, LAMBDA c : c # ",")

(* amount.endsWith(" DOT") *)
EndsWithDot(s) ==
    /\ Len(s) >= 4
    /\ SubSeq(s, Len(s) - 3, Len(s)) = <<" ", "D", "O", "T">>

(* parseInt: leading blanks skipped, then the longest run of digits; NaN    *)
(* when that run is empty.  No sign occurs in the texts drawn here.        *)
RECURSIVE SkipBlanks(_)
SkipBlanks(s) ==
    IF s # <<>> /\ Head(s) = " " THEN SkipBlanks(Tail(s)) ELSE s

RECURSIVE DigitPrefix(_)
DigitPrefix(s) ==
    IF s # <<>> /\ IsDigit(Head(s)) THEN <<Head(s)>> \o DigitPrefix(Tail(s))
    ELSE <<>>

RECURSIVE DigitsValue(_, _)
DigitsValue(s, acc) ==
    IF s = <<>> THEN acc ELSE DigitsValue(Tail(s), acc * 10 + DigitVal(Head(s)))

(* the decimal text of the number a run of digits denotes *)
RECURSIVE StripZeros(_)
StripZeros(d) ==
    IF Len(d) > 1 /\ Head(d) = "0" THEN StripZeros(Tail(d)) ELSE d

(* a < b for two decimal texts without leading zeros *)
RECURSIVE TextLess(_, _)
TextLess(a, b) ==
    IF Len(a) # Len(b) THEN Len(a) < Len(b)
    ELSE IF a = <<>> THEN FALSE
    ELSE IF Head(a) # Head(b) THEN DigitVal(Head(a)) < DigitVal(Head(b))
    ELSE TextLess(Tail(a), Tail(b))

(* the number parseInt returns, as its decimal text; exact below 2^53 *)
ParseInt(s) ==
    LET d == DigitPrefix(SkipBlanks(s))
    IN  IF d = <<>> THEN [nan |-> TRUE, digits |-> <<>>]
        ELSE [nan |-> FALSE, digits |-> StripZeros(d)]

(* Event data is an array [who, amount] or an object {who, amount}         *)
(* (index.ts 198-204).                                                     *)
Arr(who, amount) == [shape |-> "array", elems |-> <<who, amount>>]
Obj(who, amount) == [shape |-> "object", who |-> who, amount |-> amount]
DataAccount(data) == IF data.shape = "array" THEN data.elems[1] ELSE data.who
DataAmount(data) == IF data.shape = "array" THEN data.elems[2] ELSE data.amount

(* event.data.who of lines 134 / 172: the property who, undefined on an array *)
DataWhoProperty(data) == IF data.shape = "array" THEN "undefined" ELSE data.who

Zeros10 == <<"0", "0", "0", "0", "0", "0", "0", "0", "0", "0">>

(* 2^53 = 9007199254740992: bn.js takes a number only below it *)
TwoPow53 ==
    <<"9", "0", "0", "7", "1", "9", "9", "2", "5", "4", "7", "4", "0", "9",
      "9", "2">>

(* new BN(number) (line 216): bn.js's _initNumber asserts number < 2^53,   *)
(* which NaN fails as well                                                 *)
BNThrows(n) == n.nan \/ ~TextLess(n.digits, TwoPow53)

(* parseAmountAndWhoFromEventData (index.ts 191-227): does the call throw  *)
ParseThrows(data) ==
    LET a1 == RemoveCommas(DataAmount(data))
        a2 == IF EndsWithDot(a1) THEN SubSeq(a1, 1, Len(a1) - 4) ELSE a1
    IN  BNThrows(ParseInt(a2))

(* parseAmountAndWhoFromEventData (index.ts 191-227): what it returns.     *)
(* The amount is BN's decimal text; times 10^10 appends ten zeros to a     *)
(* non-zero value.                                                         *)
parseAmountAndWhoFromEventData(data) ==
    LET a1 == RemoveCommas(DataAmount(data))
        isDot == EndsWithDot(a1)
        a2 == IF isDot THEN SubSeq(a1, 1, Len(a1) - 4) ELSE a1
        txt == ParseInt(a2).digits
    IN  [who |-> DataAccount(data),
         amount |-> IF isDot /\ txt # <<"0">> THEN txt \o Zeros10 ELSE txt]

----------------------------------------------------------------------------
(* The chain: what the RPC node serves (toHuman forms) *)

Ex(section, method, signer) ==
    [section |-> section, method |-> method, signer |-> signer]
Ev(phase, section, method, data) ==
    [phase |-> phase, section |-> section, method |-> method, data |-> data]
Blk(extrinsics, evs) == [extrinsics |-> extrinsics, events |-> evs]

(* An event's phase: { ApplyExtrinsic: "<index>" } or "Finalization" *)
Apply(k) == [kind |-> "ApplyExtrinsic", index |-> IntToText(k)]
Finalization == [kind |-> "Finalization"]
PhaseApplyExtrinsic(phase) ==
    IF phase.kind = "ApplyExtrinsic" THEN phase.index ELSE <<>>

NoData == Obj("-", <<>>)
T5 == <<"5">>
T7 == <<"7">>
T12 == <<"1", ",", "2">>
TBad == <<"x">>
T5x == <<"5", "x">>

(* no elections extrinsic; a Reserved event of another module's extrinsic *)
BlkPlain ==
    Blk(<<Ex("timestamp", "set", "-"), Ex("balances", "transfer", "A")>>,
        <<Ev(Apply(0), "system", "ExtrinsicSuccess", NoData),
          Ev(Apply(1), "balances", "Reserved", Obj("A", T5))>>)

(* a submitCandidacy and a renounceCandidacy, one event each, both spellings *)
BlkFound ==
    Blk(<<Ex("electionsPhragmen", "submitCandidacy", "A"),
          Ex("phragmenElection", "renounceCandidacy", "B")>>,
        <<Ev(Apply(0), "balances", "Reserved", Obj("A", T12)),
          Ev(Finalization, "balances", "Unreserved", Obj("B", T7)),
          Ev(Apply(1), "balances", "Unreserved", Obj("B", T5))>>)

(* a submitCandidacy with no Reserved event of its index, then a found one *)
BlkSkip ==
    Blk(<<Ex("phragmenElection", "submitCandidacy", "A"),
          Ex("electionsPhragmen", "renounceCandidacy", "A"),
          Ex("electionsPhragmen", "submitCandidacy", "B")>>,
        <<Ev(Apply(0), "balances", "Unreserved", Obj("A", T5)),
          Ev(Apply(1), "balances", "Reserved", Obj("A", T5)),
          Ev(Apply(2), "balances", "Reserved", Obj("B", T7))>>)

(* a found submitCandidacy, then one with two Reserved events of its index *)
BlkTwoReserved ==
    Blk(<<Ex("electionsPhragmen", "submitCandidacy", "A"),
          Ex("electionsPhragmen", "submitCandidacy", "B")>>,
        <<Ev(Apply(0), "balances", "Reserved", Obj("A", T5)),
          Ev(Apply(1), "balances", "Reserved", Obj("B", T5)),
          Ev(Apply(1), "balances", "Reserved", Obj("B", T7))>>)

(* a renounceCandidacy with two Unreserved events of its index *)
BlkTwoUnreserved ==
    Blk(<<Ex("phragmenElection", "renounceCandidacy", "B")>>,
        <<Ev(Apply(0), "balances", "Unreserved", Obj("B", T5)),
          Ev(Apply(0), "balances", "Unreserved", Obj("B", T5))>>)

(* the one matched event names another account than the signer *)
BlkSignerMismatch ==
    Blk(<<Ex("electionsPhragmen", "submitCandidacy", "B"),
          Ex("electionsPhragmen", "renounceCandidacy", "A")>>,
        <<Ev(Apply(0), "balances", "Reserved", Obj("B", T7)),
          Ev(Apply(1), "balances", "Unreserved", Obj("B", T5))>>)

(* two submitCandidacy of one account, each with its own Reserved event *)
BlkSameKey ==
    Blk(<<Ex("electionsPhragmen", "submitCandidacy", "A"),
          Ex("electionsPhragmen", "submitCandidacy", "A")>>,
        <<Ev(Apply(0), "balances", "Reserved", Obj("A", T5)),
          Ev(Apply(1), "balances", "Reserved", Obj("A", T7))>>)

(* the matched event's amount is no number *)
BlkMalformed ==
    Blk(<<Ex("electionsPhragmen", "submitCandidacy", "A")>>,
        <<Ev(Apply(0), "balances", "Reserved", Obj("A", TBad))>>)

(* the matched event's amount is digits followed by another character *)
BlkPartial ==
    Blk(<<Ex("electionsPhragmen", "renounceCandidacy", "B")>>,
        <<Ev(Apply(0), "balances", "Unreserved", Obj("B", T5x))>>)

(* the matched event's data is the positional pair *)
BlkArray ==
    Blk(<<Ex("electionsPhragmen", "submitCandidacy", "A")>>,
        <<Ev(Apply(0), "balances", "Reserved", Arr("A", T5))>>)

BlockShapes ==
    {BlkPlain, BlkFound, BlkSkip, BlkTwoReserved, BlkTwoUnreserved,
     BlkSignerMismatch, BlkSameKey, BlkMalformed, BlkPartial, BlkArray}

----------------------------------------------------------------------------
(* The store (db.ts) *)

RowKey(r) == <<r.block_number, r.who, r.event_type>>

(* text bound to the INTEGER column amount is stored as its integer value *)
SqlInteger(txt) == DigitsValue(txt, 0)

(* an upsert that adds the new amount to the stored one *)
InsertEventAccumulate(rows, blockNumber, eventType, amount, who) ==
    LET k == <<blockNumber, who, eventType>>
        old == {r \in rows : RowKey(r) = k}
        sum == IF old = {} THEN 0 ELSE (CHOOSE r \in old : TRUE).amount
    IN  (rows \ old) \cup
        {[block_number |-> blockNumber, event_type |-> eventType,
          amount |-> sum + SqlInteger(amount), who |-> who]}

(* insertEvent: INSERT OR REPLACE under PRIMARY KEY (block_number, who,    *)
(* event_type) (db.ts 14-20, 29-40)                                        *)
InsertEvent(rows, blockNumber, eventType, amount, who) ==
    LET new == [block_number |-> blockNumber, event_type |-> eventType,
                amount |-> SqlInteger(amount), who |-> who]
    IN  {r \in rows : RowKey(r) # RowKey(new)} \cup {new}

(* setLastProcessedBlock: INSERT OR REPLACE into a table whose only column *)
(* is the primary key (db.ts 22-24, 42-50): a row with the same number is  *)
(* replaced by itself, a row with another number is left where it is.      *)
SetLastProcessedBlock(rows, blockNumber) == rows \cup {blockNumber}

SetMin(S) == CHOOSE x \in S : \A y \in S : x <= y
SetMax(S) == CHOOSE x \in S : \A y \in S : x >= y

(* getLastProcessedBlock (db.ts 52-60): db.get yields the first row of     *)
(* SELECT block_number FROM last_processed_block; SQLite walks the table   *)
(* in rowid order and block_number is the rowid.                           *)
GetLastProcessedBlock(rows) == IF rows = {} THEN Seed ELSE SetMin(rows)

RECURSIVE SumAmounts(_)
SumAmounts(rows) ==
    IF rows = {} THEN 0
    ELSE LET r == CHOOSE x \in rows : TRUE
         IN  r.amount + SumAmounts(rows \ {r})

(* a query that adds the unreserved amounts instead of subtracting them *)
NetReserveRowsGross(rows) ==
    {[who |-> w,
      net_reserve |->
          SumAmounts({r \in rows : r.who = w /\ r.event_type = "reserve"})
        + SumAmounts({r \in rows : r.who = w /\ r.event_type = "unreserve"})]
     : w \in {r.who : r \in rows}}

(* the query of fetchNetReserves (db.ts 93-99) *)
NetReserveRows(rows) ==
    {[who |-> w,
      net_reserve |->
          SumAmounts({r \in rows : r.who = w /\ r.event_type = "reserve"})
        - SumAmounts({r \in rows : r.who = w /\ r.event_type = "unreserve"})]
     : w \in {r.who : r \in rows}}

----------------------------------------------------------------------------
(* The Event Matcher, as processBlock's loop body decides (index.ts 96-180) *)

IsElections(section) ==
    section = "electionsPhragmen" \/ section = "phragmenElection"

ExpectedEvent(method) ==
    IF method = "submitCandidacy" THEN "Reserved" ELSE "Unreserved"

EventType(method) ==
    IF method = "submitCandidacy" THEN "reserve" ELSE "unreserve"

(* events.filter(...) of lines 108-113 and 146-151 *)
MatchingEvents(blk, idx, evMethod) ==
    SelectSeq(blk.events,
              LAMBDA e : /\ PhaseApplyExtrinsic(e.phase) = IToString(idx)
                         /\ e.section = "balances"
                         /\ e.method = evMethod)

(* the signer check of lines 134 and 172 *)
SignerMatches(data, ex) == DataWhoProperty(data) = ex.signer

(* a loop body that takes the first of several matching events *)
ExtrinsicStepPickFirst(blk, idx) ==
    LET ex == blk.extrinsics[idx + 1]
        found == MatchingEvents(blk, idx, ExpectedEvent(ex.method))
    IN  IF ~IsElections(ex.section) THEN "continue"
        ELSE IF ex.method \notin {"submitCandidacy", "renounceCandidacy"}
             THEN "continue"
        ELSE IF Len(found) = 0 THEN "continue"
        ELSE IF ~SignerMatches(found[1].data, ex) THEN "exit"
        ELSE IF ParseThrows(found[1].data) THEN "throw"
        ELSE "insert"

(* a loop body that exits on any count of matching events other than one *)
ExtrinsicStepNoSkip(blk, idx) ==
    LET ex == blk.extrinsics[idx + 1]
        found == MatchingEvents(blk, idx, ExpectedEvent(ex.method))
    IN  IF ~IsElections(ex.section) THEN "continue"
        ELSE IF ex.method \notin {"submitCandidacy", "renounceCandidacy"}
             THEN "continue"
        ELSE IF Len(found) # 1 THEN "exit"
        ELSE IF ~SignerMatches(found[1].data, ex) THEN "exit"
        ELSE IF ParseThrows(found[1].data) THEN "throw"
        ELSE "insert"

(* what one iteration of the for loop does with extrinsic idx (0-based) *)
ExtrinsicStep(blk, idx) ==
    LET ex == blk.extrinsics[idx + 1]
        found == MatchingEvents(blk, idx, ExpectedEvent(ex.method))
    IN  IF ~IsElections(ex.section) THEN "continue"
        ELSE IF ex.method \notin {"submitCandidacy", "renounceCandidacy"}
             THEN "continue"
        ELSE IF Len(found) = 0 THEN "continue"
        ELSE IF Len(found) > 1 THEN "exit"
        ELSE IF ~SignerMatches(found[1].data, ex) THEN "exit"
        ELSE IF ParseThrows(found[1].data) THEN "throw"
        ELSE "insert"

(* the insertEvent call of lines 139-140 and 177-178 *)
InsertFound(rows, n, blk, idx) ==
    LET ex == blk.extrinsics[idx + 1]
        ev == MatchingEvents(blk, idx, ExpectedEvent(ex.method))[1]
        p == parseAmountAndWhoFromEventData(ev.data)
    IN  InsertEvent(rows, n, EventType(ex.method), p.amount, p.who)

----------------------------------------------------------------------------
(* The process *)

Ended == {"idle", "done", "rejected", "exited", "killed"}
Running == pc \notin Ended

(* a store or RPC call may fail while the failure budget lasts *)
OkChoices == IF fails < MaxFails THEN BOOLEAN ELSE {TRUE}

(* events.db before the first run, and no process *)
BeforeFirstRun ==
    /\ chain = <<>>
    /\ events = {} /\ lpb = {}
    /\ txEvents = {} /\ txLpb = {}
    /\ inTx = FALSE /\ dbOpen = FALSE
    /\ pc = "idle"
    /\ startBlock = 0 /\ endBlock = 0 /\ curBlock = 0 /\ i = 0
    /\ runs = 0 /\ fails = 0
    /\ committed = <<>>
    /\ outcome = "none" /\ err = "none"
    /\ netReserves = {} /\ csv = "none"

Init ==
    /\ BeforeFirstRun
    /\ eventData = NoData /\ parsed = [state |-> "none"]

(* a new process: main up to openDb (index.ts 15-32) *)
NewProcess(line) ==
    /\ UNCHANGED callVars
    /\ ~Running
    /\ runs < MaxRuns
    /\ runs' = runs + 1
    /\ pc' = line
    /\ dbOpen' = TRUE
    /\ inTx' = FALSE /\ txEvents' = events /\ txLpb' = lpb
    /\ startBlock' = 0 /\ endBlock' = 0 /\ curBlock' = 0 /\ i' = 0
    /\ fails' = 0 /\ committed' = <<>>
    /\ outcome' = "none" /\ err' = "none"
    /\ netReserves' = {} /\ csv' = "none"
    /\ UNCHANGED <<chain, events, lpb>>

(* the process is gone: its open transaction is never committed *)
ProcessGone(how) ==
    /\ pc' = how
    /\ dbOpen' = FALSE
    /\ inTx' = FALSE /\ txEvents' = events /\ txLpb' = lpb
    /\ UNCHANGED <<chain, events, lpb, runs>>

(* main's promise rejects: nothing catches it (index.ts 229) *)
MainRejects(why) ==
    /\ ProcessGone("rejected")
    /\ err' = why

StartRun == NewProcess("l34")

StartScan == NewProcess("l38")

(* line 34: fetchNetReserves(db), which closes db in its finally (db.ts 104) *)
FetchNetReservesSoFar ==
    /\ UNCHANGED callVars
    /\ pc = "l34"
    /\ IF dbOpen
       THEN /\ dbOpen' = FALSE
            /\ pc' = "l38"
            /\ UNCHANGED <<chain, events, lpb, txEvents, txLpb, inTx, runs, err>>
       ELSE MainRejects("closed")
    /\ UNCHANGED <<startBlock, endBlock, curBlock, i, fails, committed,
                   outcome, netReserves, csv>>

(* lines 38-42 and 59: startBlock, endBlock, curBlock; a rejected          *)
(* getFinalizedHead / getHeader is caught nowhere                          *)
GetRange ==
    /\ UNCHANGED callVars
    /\ pc = "l38"
    /\ IF dbOpen
       THEN \E head \in Heads, ok \in BOOLEAN :
              IF ok
              THEN /\ startBlock' = GetLastProcessedBlock(txLpb) + 1
                   /\ endBlock' = head
                   /\ curBlock' = GetLastProcessedBlock(txLpb) + 1
                   /\ pc' = "l60"
                   /\ UNCHANGED <<chain, events, lpb, txEvents, txLpb, inTx,
                                  dbOpen, runs, err>>
              ELSE /\ MainRejects("rpc")
                   /\ UNCHANGED <<startBlock, endBlock, curBlock>>
       ELSE /\ MainRejects("closed")
            /\ UNCHANGED <<startBlock, endBlock, curBlock>>
    /\ UNCHANGED <<i, fails, committed, outcome, netReserves, csv>>

(* a loop condition that leaves the loop one block early *)
LoopContinuesBelowLast(cur, end) == cur + 1 < end

(* the condition of line 60 *)
LoopContinues(cur, end) == cur < end

(* line 60: while (curBlock < endBlock) *)
LoopTest ==
    /\ UNCHANGED callVars
    /\ pc = "l60"
    /\ pc' = IF LoopContinues(curBlock, endBlock) THEN "l89" ELSE "l73"
    /\ outcome' = "none"
    /\ UNCHANGED <<chain, events, lpb, txEvents, txLpb, inTx, dbOpen,
                   startBlock, endBlock, curBlock, i, runs, fails, committed,
                   err, netReserves, csv>>

(* line 89: BEGIN TRANSACTION, before the try *)
PB_Begin ==
    /\ UNCHANGED callVars
    /\ pc = "l89"
    /\ \E ok \in OkChoices :
         IF dbOpen /\ ok
         THEN /\ inTx' = TRUE
              /\ pc' = "l92"
              /\ UNCHANGED <<chain, events, lpb, txEvents, txLpb, dbOpen,
                             runs, fails, outcome, err>>
         ELSE /\ MainRejects(IF dbOpen THEN "begin" ELSE "closed")
              /\ outcome' = "threw"
              /\ fails' = fails + 1
    /\ UNCHANGED <<startBlock, endBlock, curBlock, i, committed,
                   netReserves, csv>>

(* lines 92-95: getBlockHash, getBlock, events.at *)
PB_Fetch ==
    /\ UNCHANGED callVars
    /\ pc = "l92"
    /\ \E ok \in OkChoices :
         IF ok
         THEN /\ \E blk \in BlockShapes :
                   /\ curBlock \in DOMAIN chain => blk = chain[curBlock]
                   /\ chain' = (curBlock :> blk) @@ chain
              /\ i' = 0
              /\ pc' = "l96"
              /\ UNCHANGED fails
         ELSE /\ pc' = "l186"
              /\ fails' = fails + 1
              /\ UNCHANGED <<chain, i>>
    /\ UNCHANGED <<events, lpb, txEvents, txLpb, inTx, dbOpen, startBlock,
                   endBlock, curBlock, runs, committed, outcome, err,
                   netReserves, csv>>

(* The store file after a statement that ran after BEGIN TRANSACTION       *)
(* (line 89): the file keeps its committed content until COMMIT.           *)
FileAutoCommit(durable, view) == view
FileInTransaction(durable, view) == durable

(* lines 96-180: one iteration of the for loop, or its exit *)
PB_Extrinsic ==
    /\ UNCHANGED callVars
    /\ pc = "l96"
    /\ LET blk == chain[curBlock]
           step == ExtrinsicStep(blk, i)
       IN  IF i >= Len(blk.extrinsics)
           THEN /\ pc' = "l181"
                /\ UNCHANGED <<chain, events, lpb, txEvents, txLpb, inTx,
                               dbOpen, i, runs, fails, outcome>>
           ELSE IF step = "continue"
           THEN /\ i' = i + 1
                /\ UNCHANGED <<chain, events, lpb, txEvents, txLpb, inTx,
                               dbOpen, pc, runs, fails, outcome>>
           ELSE IF step = "exit"
           THEN /\ ProcessGone("exited")
                /\ outcome' = "exit"
                /\ UNCHANGED <<i, fails>>
           ELSE IF step = "throw"
           THEN /\ pc' = "l186"
                /\ UNCHANGED <<chain, events, lpb, txEvents, txLpb, inTx,
                               dbOpen, i, runs, fails, outcome>>
           ELSE \E ok \in OkChoices :
                  IF ok
                  THEN /\ txEvents' = InsertFound(txEvents, curBlock, blk, i)
                       /\ events' = FileInTransaction(events,
                                        InsertFound(txEvents, curBlock, blk, i))
                       /\ i' = i + 1
                       /\ UNCHANGED <<chain, lpb, txLpb, inTx,
                                      dbOpen, pc, runs, fails, outcome>>
                  ELSE /\ pc' = "l186"
                       /\ fails' = fails + 1
                       /\ UNCHANGED <<chain, events, lpb, txEvents, txLpb,
                                      inTx, dbOpen, i, runs, outcome>>
    /\ UNCHANGED <<startBlock, endBlock, curBlock, committed, err,
                   netReserves, csv>>

(* line 181: setLastProcessedBlock(db, n) *)
PB_SetLast ==
    /\ UNCHANGED callVars
    /\ pc = "l181"
    /\ \E ok \in OkChoices :
         IF ok
         THEN /\ txLpb' = SetLastProcessedBlock(txLpb, curBlock)
              /\ lpb' = FileInTransaction(lpb,
                            SetLastProcessedBlock(txLpb, curBlock))
              /\ pc' = "l182"
              /\ UNCHANGED fails
         ELSE /\ pc' = "l186"
              /\ fails' = fails + 1
              /\ UNCHANGED <<txLpb, lpb>>
    /\ UNCHANGED <<chain, events, txEvents, inTx, dbOpen, startBlock,
                   endBlock, curBlock, i, runs, committed, outcome, err,
                   netReserves, csv>>

(* the effect of COMMIT on the store file *)
CommitEvents(durable, view) == view
CommitLpb(durable, view) == view

(* lines 182-183: COMMIT; return true *)
PB_Commit ==
    /\ UNCHANGED callVars
    /\ pc = "l182"
    /\ \E ok \in OkChoices :
         IF ok
         THEN /\ events' = CommitEvents(events, txEvents)
              /\ lpb' = CommitLpb(lpb, txLpb)
              /\ inTx' = FALSE
              /\ committed' = Append(committed, curBlock)
              /\ outcome' = "true"
              /\ pc' = "l62"
              /\ UNCHANGED fails
         ELSE /\ pc' = "l186"
              /\ fails' = fails + 1
              /\ UNCHANGED <<events, lpb, inTx, committed, outcome>>
    /\ UNCHANGED <<chain, txEvents, txLpb, dbOpen, startBlock, endBlock,
                   curBlock, i, runs, err, netReserves, csv>>

(* the effect of ROLLBACK on the connection's view *)
Rollback(durable, view) == durable

(* lines 184-188: catch: ROLLBACK; return false *)
PB_Catch ==
    /\ UNCHANGED callVars
    /\ pc = "l186"
    /\ txEvents' = Rollback(events, txEvents)
    /\ txLpb' = Rollback(lpb, txLpb)
    /\ inTx' = FALSE
    /\ outcome' = "false"
    /\ pc' = "l62"
    /\ UNCHANGED <<chain, events, lpb, dbOpen, startBlock, endBlock,
                   curBlock, i, runs, fails, committed, err, netReserves, csv>>

(* lines 62-68: the next block on success, the same block after the wait *)
NextBlockAlways(cur, success) == cur + 1
NextBlock(cur, success) == IF success THEN cur + 1 ELSE cur

AfterProcessBlock ==
    /\ UNCHANGED callVars
    /\ pc = "l62"
    /\ curBlock' = NextBlock(curBlock, outcome = "true")
    /\ fails' = IF outcome = "true" THEN 0 ELSE fails
    /\ pc' = "l60"
    /\ UNCHANGED <<chain, events, lpb, txEvents, txLpb, inTx, dbOpen,
                   startBlock, endBlock, i, runs, committed, outcome, err,
                   netReserves, csv>>

(* line 73: fetchNetReserves(db): the query, then db.close() in finally *)
FetchNetReservesFinal ==
    /\ UNCHANGED callVars
    /\ pc = "l73"
    /\ IF dbOpen
       THEN /\ netReserves' = NetReserveRows(txEvents)
            /\ dbOpen' = FALSE
            /\ pc' = "l74"
            /\ UNCHANGED <<chain, events, lpb, txEvents, txLpb, inTx, runs, err>>
       ELSE /\ MainRejects("closed")
            /\ UNCHANGED netReserves
    /\ UNCHANGED <<startBlock, endBlock, curBlock, i, fails, committed,
                   outcome, csv>>

(* line 74: writeToCSV(netReserves, "polkadot.csv") *)
WriteToCSV ==
    /\ UNCHANGED callVars
    /\ pc = "l74"
    /\ csv' = netReserves
    /\ pc' = "l80"
    /\ UNCHANGED <<chain, events, lpb, txEvents, txLpb, inTx, dbOpen,
                   startBlock, endBlock, curBlock, i, runs, fails, committed,
                   outcome, err, netReserves>>

(* line 80: db.close() *)
CloseDb ==
    /\ UNCHANGED callVars
    /\ pc = "l80"
    /\ IF dbOpen
       THEN /\ ProcessGone("done")
            /\ UNCHANGED err
       ELSE MainRejects("closed")
    /\ UNCHANGED <<startBlock, endBlock, curBlock, i, fails, committed,
                   outcome, netReserves, csv>>

(* the process is killed (operator interrupt, power loss) *)
Kill ==
    /\ UNCHANGED callVars
    /\ Running
    /\ ProcessGone("killed")
    /\ UNCHANGED <<startBlock, endBlock, curBlock, i, fails, committed,
                   outcome, err, netReserves, csv>>

Next ==
    \/ StartRun
    \/ StartScan
    \/ FetchNetReservesSoFar
    \/ GetRange
    \/ LoopTest
    \/ PB_Begin
    \/ PB_Fetch
    \/ PB_Extrinsic
    \/ PB_SetLast
    \/ PB_Commit
    \/ PB_Catch
    \/ AfterProcessBlock
    \/ FetchNetReservesFinal
    \/ WriteToCSV
    \/ CloseDb
    \/ Kill

Spec == Init /\ [][Next]_vars

----------------------------------------------------------------------------
(* A lone call of parseAmountAndWhoFromEventData (index.ts 191-227) on     *)
(* event data whose amount text is drawn from: a number of up to           *)
(* MaxMantissa followed by up to MaxGroups groups of three zeros, with or  *)
(* without the grouping commas, with or without the suffix " DOT"; the     *)
(* texts "1,234 DOT" and "500"; and texts that are no number.              *)

MaxMantissa == 12
MaxGroups == 5

DotSuffix == <<" ", "D", "O", "T">>

RECURSIVE ZeroGroups(_, _)
ZeroGroups(k, sep) ==
    IF k = 0 THEN <<>> ELSE sep \o <<"0", "0", "0">> \o ZeroGroups(k - 1, sep)

WellFormedTexts ==
    {IntToText(m) \o ZeroGroups(k, sep) \o sfx :
        m \in 1..MaxMantissa, k \in 0..MaxGroups,
        sep \in {<<>>, <<",">>}, sfx \in {<<>>, DotSuffix}}
    \cup {<<"1", ",", "2", "3", "4">> \o DotSuffix, <<"5", "0", "0">>,
          <<"0">>, <<"0">> \o DotSuffix, <<"0", "0", "7">>}

AmountTexts == WellFormedTexts \cup {<<>>, TBad, T5x, DotSuffix}

ParseInit ==
    /\ BeforeFirstRun
    /\ \E t \in AmountTexts : eventData \in {Arr("A", t), Obj("A", t)}
    /\ parsed = [state |-> "none"]

ParseCall ==
    /\ parsed.state = "none"
    /\ parsed' = IF ParseThrows(eventData) THEN [state |-> "threw"]
                 ELSE [state |-> "returned",
                       value |-> parseAmountAndWhoFromEventData(eventData)]
    /\ UNCHANGED <<scanVars, eventData>>

ParseNext == ParseCall

ParseSpec == ParseInit /\ [][ParseNext]_vars

----------------------------------------------------------------------------
(* fetchNetReserves (db.ts 89-106) on any content of table events: main is *)
(* at line 73 after a scan of two blocks, on an open handle, and events    *)
(* holds up to MaxRows rows, no two with the same primary key.             *)

MaxRows == 3

AggBlockNums == {FirstBlock, FirstBlock + 1}
AggKeys == AggBlockNums \X {"A", "B"} \X {"reserve", "unreserve"}
AggAmounts == {30, 50, 100}

TableOf(f) ==
    {[block_number |-> k[1], event_type |-> k[3], amount |-> f[k],
      who |-> k[2]] : k \in {x \in AggKeys : f[x] # 0}}

AggInit ==
    /\ \E f \in [AggKeys -> AggAmounts \cup {0}] :
          /\ Cardinality({k \in AggKeys : f[k] # 0}) <= MaxRows
          /\ events = TableOf(f)
    /\ txEvents = events
    /\ lpb = AggBlockNums /\ txLpb = AggBlockNums
    /\ chain = <<>>
    /\ inTx = FALSE /\ dbOpen = TRUE
    /\ pc = "l73"
    /\ startBlock = FirstBlock /\ endBlock = FirstBlock + 2
    /\ curBlock = FirstBlock + 2 /\ i = 0
    /\ runs = 1 /\ fails = 0
    /\ committed = <<FirstBlock, FirstBlock + 1>>
    /\ outcome = "none" /\ err = "none"
    /\ netReserves = {} /\ csv = "none"
    /\ eventData = NoData /\ parsed = [state |-> "none"]

AggNext ==
    \/ FetchNetReservesFinal
    \/ WriteToCSV
    \/ CloseDb

AggSpec == AggInit /\ [][AggNext]_vars

----------------------------------------------------------------------------
(* The claims' vocabulary, from the specification's Event Matcher (4.2)    *)

InProcessBlock == pc \in {"l89", "l92", "l96", "l181", "l182", "l186"}
Scanning == InProcessBlock \/ pc \in {"l60", "l62"}
AfterScan == pc \in {"l73", "l74", "l80"}

IsCandidacyCall(ex) ==
    /\ IsElections(ex.section)
    /\ ex.method \in {"submitCandidacy", "renounceCandidacy"}

(* the events of blk that belong to extrinsic idx: phase marker idx, module *)
(* balances, the method the call expects                                   *)
EventsOf(blk, idx) ==
    {k \in 1..Len(blk.events) :
        /\ blk.events[k].phase = Apply(idx)
        /\ blk.events[k].section = "balances"
        /\ blk.events[k].method = ExpectedEvent(blk.extrinsics[idx + 1].method)}

TheEventOf(blk, idx) == blk.events[CHOOSE k \in EventsOf(blk, idx) : TRUE]

Indexes(blk) == 0..(Len(blk.extrinsics) - 1)

Skipped(blk, idx) ==
    /\ IsCandidacyCall(blk.extrinsics[idx + 1])
    /\ EventsOf(blk, idx) = {}

Inconsistent(blk, idx) ==
    /\ IsCandidacyCall(blk.extrinsics[idx + 1])
    /\ \/ Cardinality(EventsOf(blk, idx)) > 1
       \/ /\ Cardinality(EventsOf(blk, idx)) = 1
          /\ DataAccount(TheEventOf(blk, idx).data)
                # blk.extrinsics[idx + 1].signer

FoundAt(blk, idx) ==
    /\ IsCandidacyCall(blk.extrinsics[idx + 1])
    /\ Cardinality(EventsOf(blk, idx)) = 1
    /\ DataAccount(TheEventOf(blk, idx).data) = blk.extrinsics[idx + 1].signer

(* the identity (blockNumber, account, kind) of the DepositEvent of a match *)
FoundKey(n, blk, idx) ==
    <<n, DataAccount(TheEventOf(blk, idx).data),
      EventType(blk.extrinsics[idx + 1].method)>>

RowsOfBlock(rows, n) == {r \in rows : r.block_number = n}

----------------------------------------------------------------------------
(* C1: resume correctness.  When the store holds the cursor of earlier     *)
(* committed blocks, the highest of them being N, a fresh run computes     *)
(* startBlock = N + 1 and calls processBlock for no block that is already  *)
(* committed.  Stated as the claim has it; the code violates it.           *)
C1_ResumeAfterLastCommitted ==
    /\ (pc = "l60" /\ committed = <<>> /\ lpb # {})
          => startBlock = SetMax(lpb) + 1
    /\ pc = "l89" => curBlock \notin lpb

(* C2: the cursor table holds exactly one value, the last one set.         *)
(* Stated as the claim has it; the code violates it.                       *)
C2_SingleCursorValue ==
    /\ Cardinality(lpb) <= 1
    /\ pc = "l182" => txLpb = {curBlock}

(* C3: atomic per-block commit.  In every committed state of the store:    *)
(* when the cursor table holds block n, the block was fetched and every    *)
(* Found match of it has its DepositEvent (by identity) in events; when it *)
(* does not, events holds no row of block n.                               *)
C3_AtomicCommit ==
    \A n \in BlockNums :
        IF n \in lpb
        THEN /\ n \in DOMAIN chain
             /\ \A idx \in Indexes(chain[n]) :
                    FoundAt(chain[n], idx) =>
                        \E r \in events : RowKey(r) = FoundKey(n, chain[n], idx)
        ELSE RowsOfBlock(events, n) = {}

(* a process killed inside the transaction of a block with a Found match,  *)
(* after the insert, the block before it committed with its rows           *)
C3_Witness ==
    /\ pc = "killed" /\ i > 0
    /\ curBlock \in DOMAIN chain /\ curBlock \notin lpb
    /\ chain[curBlock] = BlkFound
    /\ (curBlock - 1) \in lpb
    /\ RowsOfBlock(events, curBlock - 1) # {}

(* C4: retry loop.  After a recoverable failure on block K, and unless the *)
(* process is killed or a later attempt takes the fatal exit, the driver   *)
(* is still in the scan, on the same block K, and no committed cursor      *)
(* value exceeds K - 1 until the attempt that succeeds.  Stated as the     *)
(* claim has it; the code violates it.                                     *)
C4_RetrySameBlock ==
    (fails > 0 /\ pc \notin {"killed", "exited"}) =>
        /\ Scanning
        /\ curBlock = startBlock + Len(committed) - (IF pc = "l62" /\ outcome = "true" THEN 1 ELSE 0)
        /\ outcome # "true" => \A b \in lpb : b <= curBlock - 1

(* C5: Inconsistent is fatal and leaves nothing behind.  A block with an   *)
(* inconsistent extrinsic is never in the cursor table and has no row in   *)
(* events; after process.exit no transaction is open and the block is not  *)
(* committed; and the step taken at an inconsistent extrinsic is the exit  *)
(* of the process, never a retry or the next extrinsic.                    *)
C5_InconsistentState ==
    /\ \A n \in DOMAIN chain :
          (\E idx \in Indexes(chain[n]) : Inconsistent(chain[n], idx)) =>
              (n \notin lpb /\ RowsOfBlock(events, n) = {})
    /\ pc = "exited" =>
          /\ ~inTx /\ outcome = "exit"
          /\ curBlock \notin lpb
          /\ RowsOfBlock(events, curBlock) = {}

C5_InconsistentStep ==
    (/\ pc = "l96"
     /\ i < Len(chain[curBlock].extrinsics)
     /\ Inconsistent(chain[curBlock], i))
        => pc' \in {"exited", "killed"}

C5_InconsistentIsFatal ==
    []C5_InconsistentState /\ [][C5_InconsistentStep]_vars

(* the process has exited at the second extrinsic of a block whose first   *)
(* extrinsic was inserted in the same transaction                          *)
C5_Witness ==
    /\ pc = "exited" /\ i = 1
    /\ chain[curBlock] = BlkTwoReserved
    /\ RowsOfBlock(events, curBlock) = {}

(* C6: every recoverable failure in processBlock ends in the Retry outcome *)
(* with the transaction rolled back; processBlock never ends by throwing.  *)
(* Stated as the claim has it; the code violates it.                       *)
C6_FailureGivesRetry ==
    /\ outcome # "threw"
    /\ outcome = "false" => (~inTx /\ txEvents = events /\ txLpb = lpb)

(* C7: a run in which no store or RPC call fails and no fatal outcome      *)
(* occurs ends Done: main's promise rejects only where such a call failed. *)
(* Stated as the claim has it; the code violates it.                       *)
C7_RunEndsDone ==
    pc = "rejected" => err \in {"rpc", "begin"}

(* C8: in-order sequential scan.  Within a run the blocks committed are    *)
(* startBlock, startBlock + 1, ... in that order, each once; curBlock is   *)
(* the block after the last committed one; processBlock runs for a block   *)
(* only when every earlier block of the range is committed and no          *)
(* transaction is open; when the loop is left the committed blocks are     *)
(* exactly [startBlock, endBlock), none when startBlock >= endBlock; and   *)
(* no step lowers the committed cursor.                                    *)
C8_ScanState ==
    /\ (Scanning \/ AfterScan) =>
          /\ committed = [k \in 1..Len(committed) |-> startBlock + k - 1]
          /\ \A k \in 1..Len(committed) : committed[k] \in lpb
    /\ (Scanning /\ ~(pc = "l62" /\ outcome = "true")) =>
          curBlock = startBlock + Len(committed)
    /\ InProcessBlock =>
          /\ curBlock < endBlock
          /\ \A b \in startBlock..(curBlock - 1) : b \in lpb
    /\ pc = "l89" => ~inTx
    /\ AfterScan =>
          Len(committed) = (IF startBlock >= endBlock THEN 0
                            ELSE endBlock - startBlock)

C8_CursorStep ==
    /\ lpb \subseteq lpb'
    /\ GetLastProcessedBlock(lpb') >= GetLastProcessedBlock(lpb)

C8_InOrderScan ==
    []C8_ScanState /\ [][C8_CursorStep]_vars

(* the loop is left with the two blocks of the range committed *)
C8_Witness ==
    /\ pc = "l73"
    /\ committed = <<FirstBlock, FirstBlock + 1>>
    /\ endBlock = FirstBlock + 2

(* C9: skip invariant.  At a candidacy call with no event of its index the *)
(* loop goes on to the next extrinsic and writes nothing; and a committed  *)
(* block holds rows of Found matches only.                                 *)
C9_SkipState ==
    \A n \in lpb :
        \A r \in RowsOfBlock(events, n) :
            \E idx \in Indexes(chain[n]) :
                /\ FoundAt(chain[n], idx)
                /\ RowKey(r) = FoundKey(n, chain[n], idx)

C9_SkipStep ==
    (/\ pc = "l96"
     /\ i < Len(chain[curBlock].extrinsics)
     /\ Skipped(chain[curBlock], i))
        => \/ pc' = "killed"
           \/ /\ pc' = "l96" /\ i' = i + 1
              /\ txEvents' = txEvents /\ txLpb' = txLpb
              /\ events' = events /\ lpb' = lpb

C9_SkipInvariant ==
    []C9_SkipState /\ [][C9_SkipStep]_vars

(* a block whose first two candidacy calls were skipped and whose third    *)
(* was found is committed with the row of the third only                   *)
C9_Witness ==
    /\ pc = "l62" /\ outcome = "true"
    /\ chain[curBlock] = BlkSkip
    /\ curBlock \in lpb
    /\ {RowKey(r) : r \in RowsOfBlock(events, curBlock)}
          = {<<curBlock, "B", "reserve">>}

(* C10: idempotence.  No two rows of events share (block_number, who,      *)
(* event_type); and when every statement of the processing of a block that *)
(* is already committed has run, the connection's view equals the          *)
(* committed store, so that its COMMIT changes nothing.                    *)
C10_Idempotent ==
    /\ \A r1, r2 \in txEvents : RowKey(r1) = RowKey(r2) => r1 = r2
    /\ \A r1, r2 \in events : RowKey(r1) = RowKey(r2) => r1 = r2
    /\ (pc = "l182" /\ curBlock \in lpb) =>
          (txEvents = events /\ txLpb = lpb)
    /\ (pc = "l62" /\ outcome = "true") =>
          (txEvents = events /\ txLpb = lpb)

(* a block with rows, already committed, processed a second time up to     *)
(* its COMMIT                                                              *)
C10_Witness ==
    /\ pc = "l182" /\ curBlock \in lpb
    /\ chain[curBlock] \in {BlkFound, BlkSameKey}
    /\ RowsOfBlock(events, curBlock) # {}

----------------------------------------------------------------------------
(* the amount text, commas and the unit suffix removed, is a non-empty run *)
(* of digits: a valid non-negative integer literal                         *)
WellFormedAmount(text) ==
    LET a1 == SelectSeq(text, LAMBDA c : c # ",")
        a2 == IF EndsWithDot(a1) THEN SubSeq(a1, 1, Len(a1) - 4) ELSE a1
    IN  a2 # <<>> /\ \A k \in 1..Len(a2) : IsDigit(a2[k])

(* extrinsic idx has its one matched event, and the amount is malformed *)
MalformedAt(blk, idx) ==
    /\ IsCandidacyCall(blk.extrinsics[idx + 1])
    /\ Cardinality(EventsOf(blk, idx)) = 1
    /\ ~WellFormedAmount(DataAmount(TheEventOf(blk, idx).data))

(* C11: MalformedAmount is always fatal.  No row, committed or in the open *)
(* transaction, stems from a matched event with a malformed amount; and    *)
(* the step taken at such an extrinsic ends the process: it is never the   *)
(* way to the catch clause (Retry) nor the next extrinsic.  Stated as the  *)
(* claim has it; the code violates it.                                     *)
C11_NoMalformedRow ==
    \A n \in DOMAIN chain :
        \A idx \in Indexes(chain[n]) :
            MalformedAt(chain[n], idx) =>
                \A r \in events \cup txEvents :
                    RowKey(r) # FoundKey(n, chain[n], idx)

C11_MalformedStep ==
    (/\ pc = "l96"
     /\ i < Len(chain[curBlock].extrinsics)
     /\ MalformedAt(chain[curBlock], i))
        => pc' \in {"exited", "killed"}

C11_MalformedIsFatal ==
    []C11_NoMalformedRow /\ [][C11_MalformedStep]_vars

----------------------------------------------------------------------------
(* the normalized amount of a well-formed amount text, as decimal text:    *)
(* the digits of the text, followed by ten zeros (times 10^10) when the    *)
(* text ends with the unit suffix                                          *)
RECURSIVE DropLeadingZeros(_)
DropLeadingZeros(d) ==
    IF Len(d) > 1 /\ d[1] = "0" THEN DropLeadingZeros(SubSeq(d, 2, Len(d)))
    ELSE d

ExpectedAmount(text) ==
    LET d == DropLeadingZeros(SelectSeq(text, IsDigit))
    IN  IF EndsWithDot(text) /\ d # <<"0">> THEN d \o Zeros10 ELSE d

(* C12: both event data shapes are accepted.  At an extrinsic with exactly *)
(* one matching event whose account is the signer and whose amount is      *)
(* well formed, whatever the shape of the data, the step records the row   *)
(* of that account with the normalized amount and goes on to the next      *)
(* extrinsic (unless the store call fails or the process is killed).       *)
(* Stated as the claim has it; the code violates it.                       *)
C12_FoundStep ==
    (/\ pc = "l96"
     /\ i < Len(chain[curBlock].extrinsics)
     /\ FoundAt(chain[curBlock], i)
     /\ WellFormedAmount(DataAmount(TheEventOf(chain[curBlock], i).data)))
        => \/ pc' = "killed"
           \/ pc' = "l186" /\ fails' = fails + 1
           \/ /\ pc' = "l96" /\ i' = i + 1
              /\ \E r \in txEvents' :
                    /\ RowKey(r) = FoundKey(curBlock, chain[curBlock], i)
                    /\ r.amount = SqlInteger(ExpectedAmount(
                           DataAmount(TheEventOf(chain[curBlock], i).data)))

C12_BothShapesAccepted == [][C12_FoundStep]_vars

----------------------------------------------------------------------------
(* C13: seed of a fresh scan.  When the store holds no cursor, the first   *)
(* block the scan processes is the earliest block that can contain a       *)
(* relevant event (the seed is the block before it).  Stated as the claim  *)
(* has it; the code violates it.                                           *)
C13_SeedBeforeEarliest ==
    (Scanning /\ lpb = {} /\ committed = <<>>) =>
        /\ GetLastProcessedBlock(lpb) = FirstBlockWithEvent - 1
        /\ startBlock = FirstBlockWithEvent

----------------------------------------------------------------------------
(* C14: amount normalization.  For every well-formed amount text the call  *)
(* returns, and the amount returned is the integer value of the digits,    *)
(* times 10^10 when the text ends with " DOT", exactly, whatever the       *)
(* magnitude.  Stated as the claim has it; the code violates it.           *)
C14_NormalizeExact ==
    (parsed.state # "none" /\ WellFormedAmount(DataAmount(eventData))) =>
        /\ parsed.state = "returned"
        /\ parsed.value.amount = ExpectedAmount(DataAmount(eventData))
        /\ parsed.value.who = DataAccount(eventData)

----------------------------------------------------------------------------
(* the amount of the row of rows with primary key (b, w, t), 0 without one *)
AmountAt(rows, b, w, t) ==
    IF \E r \in rows : RowKey(r) = <<b, w, t>>
    THEN (CHOOSE r \in rows : RowKey(r) = <<b, w, t>>).amount
    ELSE 0

(* the net position of account w over the blocks FirstBlock .. b *)
RECURSIVE NetUpTo(_, _, _)
NetUpTo(rows, w, b) ==
    IF b < FirstBlock THEN 0
    ELSE AmountAt(rows, b, w, "reserve") - AmountAt(rows, b, w, "unreserve")
         + NetUpTo(rows, w, b - 1)

NetPosition(rows, w) == NetUpTo(rows, w, Seed + MaxBlocks + 2)

(* C15: aggregation correctness.  What fetchNetReserves returns has        *)
(* exactly one row per account with at least one row in events, no other   *)
(* row, and the row's net amount is the account's reserved amounts minus   *)
(* its unreserved amounts; and the call leaves table events as it was.     *)
C15_NetRows ==
    pc \in {"l74", "l80"} =>
        /\ \A w \in {r.who : r \in events} :
              /\ Cardinality({x \in netReserves : x.who = w}) = 1
              /\ \A x \in netReserves :
                    x.who = w => x.net_reserve = NetPosition(events, w)
        /\ \A x \in netReserves : \E r \in events : r.who = x.who

C15_FetchStep ==
    pc = "l73" => (events' = events /\ txEvents' = txEvents)

C15_Aggregation == []C15_NetRows /\ [][C15_FetchStep]_vars

(* the claim's example: A reserves 100 in one block and unreserves 30 in   *)
(* the next, B reserves 50; the call has returned A = 70, B = 50           *)
C15_Witness ==
    /\ pc = "l74"
    /\ events =
          {[block_number |-> FirstBlock, event_type |-> "reserve",
            amount |-> 100, who |-> "A"],
           [block_number |-> FirstBlock + 1, event_type |-> "unreserve",
            amount |-> 30, who |-> "A"],
           [block_number |-> FirstBlock, event_type |-> "reserve",
            amount |-> 50, who |-> "B"]}
    /\ netReserves = {[who |-> "A", net_reserve |-> 70],
                      [who |-> "B", net_reserve |-> 50]}

----------------------------------------------------------------------------
(* C16: the CSV export happens only after a clean scan.  Where writeToCSV  *)
(* is about to be or has been invoked, every block of [startBlock,         *)
(* endBlock) was committed in this run, in order, and is in the committed  *)
(* cursor table; none of them has an inconsistent extrinsic; no            *)
(* transaction is open and no block is being retried.  And writeToCSV is   *)
(* invoked from line 74 only: never by a process that has exited.          *)
C16_CleanScan ==
    pc \in {"l74", "l80"} =>
        /\ Len(committed) = (IF startBlock >= endBlock THEN 0
                             ELSE endBlock - startBlock)
        /\ \A b \in startBlock..(endBlock - 1) :
              /\ committed[b - startBlock + 1] = b
              /\ b \in lpb
              /\ b \in DOMAIN chain
              /\ \A idx \in Indexes(chain[b]) : ~Inconsistent(chain[b], idx)
        /\ ~inTx /\ txEvents = events
        /\ fails = 0 /\ outcome \notin {"false", "exit", "threw"}

C16_ExportStep ==
    (pc' = "l80" /\ pc # "l80") => (pc = "l74" /\ csv' = netReserves)

C16_ExportAfterCleanScan == []C16_CleanScan /\ [][C16_ExportStep]_vars

(* writeToCSV has been invoked after a scan that committed two blocks, and *)
(* the rows written are the net reserves of a non-empty table              *)
C16_Witness ==
    /\ pc = "l80"
    /\ committed = <<FirstBlock, FirstBlock + 1>>
    /\ events # {}
    /\ csv = NetReserveRows(events)

----------------------------------------------------------------------------
(* the lines of main and processBlock that issue a store operation: cursor *)
(* read (38), BEGIN TRANSACTION (89), insertEvent (96-180),                *)
(* setLastProcessedBlock (181), COMMIT (182), ROLLBACK (186),              *)
(* fetchNetReserves (34, 73), close (80)                                   *)
StoreLines == {"l34", "l38", "l89", "l96", "l181", "l182", "l186", "l73", "l80"}

(* C17: no use of a closed store handle.  Wherever the process is about to *)
(* issue a store operation the handle is open; no run ends because an      *)
(* operation met a closed handle; and a step that closes the handle is the *)
(* last store operation of the run.  Stated as the claim has it; the code  *)
(* violates it.                                                            *)
C17_HandleOpen ==
    /\ pc \in StoreLines => dbOpen
    /\ err # "closed"

C17_CloseStep ==
    (dbOpen /\ ~dbOpen') => pc' \in Ended

C17_NoClosedHandleUse == []C17_HandleOpen /\ [][C17_CloseStep]_vars

----------------------------------------------------------------------------
(* the sum of the normalized amounts of the Found matches of account w and *)
(* kind t among the extrinsics 0 .. idx of blk                             *)
RECURSIVE MatchedUpTo(_, _, _, _)
MatchedUpTo(blk, w, t, idx) ==
    IF idx < 0 THEN 0
    ELSE (IF /\ FoundAt(blk, idx)
             /\ blk.extrinsics[idx + 1].signer = w
             /\ EventType(blk.extrinsics[idx + 1].method) = t
          THEN SqlInteger(ExpectedAmount(DataAmount(TheEventOf(blk, idx).data)))
          ELSE 0)
         + MatchedUpTo(blk, w, t, idx - 1)

(* C18: no matched event is lost.  For a committed block whose matched     *)
(* amounts are all well formed, and for every account and kind, the amount *)
(* stored for the block equals the sum of the amounts of the block's Found *)
(* matches of that account and kind.  Stated as the claim has it; the code *)
(* violates it.                                                            *)
C18_NoMatchLost ==
    \A n \in lpb :
        (/\ n \in DOMAIN chain
         /\ \A idx \in Indexes(chain[n]) : ~MalformedAt(chain[n], idx))
        => \A w \in {"A", "B"}, t \in {"reserve", "unreserve"} :
              AmountAt(events, n, w, t)
                 = MatchedUpTo(chain[n], w, t, Len(chain[n].extrinsics) - 1)

====
